---------------------------- MODULE Spec2Model ----------------------------
(***************************************************************************)
(* A model of dali/command.py: the response model (Response,               *)
(* YesNoResponse, BitmapResponse and its name->bit metaclass), the command *)
(* model (GeneralCommand, SpecialCommand, ShortAddrSpecialCommand), and    *)
(* the command registry with its dispatcher Command.from_frame.            *)
(*                                                                         *)
(* Python values are records tagged by a field t; an operation's outcome   *)
(* is either Return(v) or Raise(exception name).  Text is a sequence of    *)
(* one-character strings, so that the name mangling of the bitmap          *)
(* metaclass is computed and not assumed.                                  *)
(***************************************************************************)
EXTENDS Integers, Sequences, FiniteSets, TLC

VARIABLES
    resp,       \* the Response object under inspection (PyNone before construction)
    rop,        \* the last operation on it: <<"init">>, <<"new">>, <<"value">>, ...
    rout,       \* the outcome of that operation
    cmd,        \* the command object built by the last constructor call
    cop,        \* the last command operation
    cout,       \* the outcome of that operation
    commands,   \* Command._commands, the registry
    nclasses,   \* how many class statements have run after those of command.py
    dop,        \* the last dispatcher call: <<"init">> or <<"from_frame", f, d>>
    dout        \* the outcome of that call

vars == <<resp, rop, rout, cmd, cop, cout, commands, nclasses, dop, dout>>
respVars == <<resp, rop, rout>>
encVars == <<cmd, cop, cout>>
regVars == <<commands, nclasses, dop, dout>>

---------------------------------------------------------------------------
(* Bounds of the model.                                                    *)

\* Longest list of bit names a BitmapResponse subtype declares.
MaxBits == 3
\* Most arguments passed to a command constructor after the destination.
MaxArgs == 2
\* Most command types declared after those of command.py itself.
MaxDeclared == 2

---------------------------------------------------------------------------
(* Python values and outcomes.                                             *)

PyNone == [t |-> "None"]
PyBool(b) == [t |-> "bool", b |-> b]
PyInt(i) == [t |-> "int", i |-> i]
PyStr(s) == [t |-> "str", s |-> s]
PyList(l) == [t |-> "list", l |-> l]
PyText(v) == [t |-> "unicode", of |-> v]

Return(v) == [tag |-> "return", val |-> v]
Raise(e) == [tag |-> "raise", exc |-> e]
NoOutcome == [tag |-> "none"]

RECURSIVE Pow2(_)
Pow2(n) == IF n = 0 THEN 1 ELSE 2 * Pow2(n - 1)

\* a >> n, a << n, a & b, a | b on naturals
ShiftR(a, n) == a \div Pow2(n)
ShiftL(a, n) == a * Pow2(n)

RECURSIVE BitAnd(_, _)
BitAnd(a, b) ==
    IF a = 0 \/ b = 0 THEN 0
    ELSE (IF a % 2 = 1 /\ b % 2 = 1 THEN 1 ELSE 0) + 2 * BitAnd(a \div 2, b \div 2)

RECURSIVE BitOr(_, _)
BitOr(a, b) ==
    IF a = 0 THEN b
    ELSE IF b = 0 THEN a
    ELSE (IF a % 2 = 1 \/ b % 2 = 1 THEN 1 ELSE 0) + 2 * BitOr(a \div 2, b \div 2)

---------------------------------------------------------------------------
(* The frame abstraction (dali.frame, consumed through its interface).     *)

ForwardFrame(bits, data) == [t |-> "ForwardFrame", bits |-> bits, data |-> data % Pow2(bits)]
\* ForwardFrame(16, (hi, lo)): a frame from a tuple of bytes
ForwardFrameBytes(hi, lo) == ForwardFrame(16, hi * 256 + lo)
BackwardFrame(data, error) == [t |-> "BackwardFrame", bits |-> 8, data |-> data, error |-> error]

\* len(frame), frame[i], frame[hi:lo]
FrameLen(f) == f.bits
FrameBit(f, i) == (f.data \div Pow2(i)) % 2 = 1
FrameSlice(f, hi, lo) == (f.data \div Pow2(lo)) % Pow2(hi - lo + 1)
\* frame[hi:lo] = v on a frame under construction
FrameSetSlice(f, hi, lo, v) ==
    [f EXCEPT !.data = f.data - FrameSlice(f, hi, lo) * Pow2(lo) + v * Pow2(lo)]

\* Python truth of a value: None is false, a frame (it has a length) is
\* true when its length is not 0, any other object is true.
Truthy(v) ==
    CASE v.t = "None" -> FALSE
      [] v.t = "bool" -> v.b
      [] v.t \in {"ForwardFrame", "BackwardFrame"} -> FrameLen(v) # 0
      [] OTHER -> TRUE

---------------------------------------------------------------------------
(* The response model.                                                     *)

\* A response class: its place in the hierarchy and the bit names it declares.
ResponseCls == [base |-> "Response", bits |-> <<>>]
YesNoResponseCls == [base |-> "YesNoResponse", bits |-> <<>>]
BitmapResponseCls(bits) == [base |-> "BitmapResponse", bits |-> bits]

\* Mutant of Expected: the base class expects a response too.
Expected_Mut(cls) == TRUE

\* The class attributes _expected and _error_acceptable.
Expected(cls) == cls.base = "BitmapResponse"
ErrorAcceptable(cls) == cls.base = "YesNoResponse"

\* Response.__init__
Response___init__(cls, val) ==
    IF val.t # "None" /\ val.t # "BackwardFrame"
    THEN Raise("TypeError")
    ELSE Return([t |-> "Response", cls |-> cls, _value |-> val])

\* Mutant of Response_value: the framing-error flag is not looked at.
Response_value_Mut(self) ==
    IF self._value.t = "None" /\ Expected(self.cls)
    THEN Raise("MissingResponse")
    ELSE Return(self._value)

\* Response.value
Response_value(self) ==
    IF self._value.t = "None" /\ Expected(self.cls)
    THEN Raise("MissingResponse")
    ELSE IF Truthy(self._value) /\ self._value.error /\ ~ErrorAcceptable(self.cls)
    THEN Raise("ResponseError")
    ELSE Return(self._value)

\* Mutant of YesNoResponse_value: a frame with a framing error counts as "No".
YesNoResponse_value_Mut(self) ==
    Return(PyBool(self._value.t # "None" /\ ~self._value.error))

\* YesNoResponse.value
YesNoResponse_value(self) == Return(PyBool(self._value.t # "None"))

\* self.value, resolved through the class of self
Value(self) ==
    IF self.cls.base = "YesNoResponse" THEN YesNoResponse_value(self)
    ELSE Response_value(self)

\* "A or B" on two exception classes: a class is a true value, so the
\* expression evaluates to A.
PyOr(a, b) == IF Truthy(PyStr(a)) THEN a ELSE b

\* The except clause of Response.__unicode__: the class it catches.
ExceptClause == PyOr("MissingResponse", "ResponseError")

\* Response.__unicode__
Response___unicode__(self) ==
    LET v == Value(self) IN
    IF v.tag = "return" THEN Return(PyText(v.val))
    ELSE IF v.exc = ExceptClause THEN Return(PyText(PyStr(v.exc)))
    ELSE v

\* str.replace(old, new) for one-character old and new, and str.replace(old, '')
ReplaceChar(s, old, new) == [i \in 1..Len(s) |-> IF s[i] = old THEN new ELSE s[i]]
RemoveChar(s, old) == SelectSeq(s, LAMBDA c : c # old)

\* b.replace(' ','_').replace('-','')
Mangle(b) == RemoveChar(ReplaceChar(b, " ", "_"), "-")

\* Mutant of BitDictLoop: the counter advances only past a named position.
RECURSIVE BitDictLoop_Mut(_, _, _, _)
BitDictLoop_Mut(bits, k, bit, bd) ==
    IF k > Len(bits) THEN bd
    ELSE LET b == bits[k]
             mangled == Mangle(b)
         IN IF b # <<>>
            THEN BitDictLoop_Mut(bits, k + 1, bit + 1,
                     [m \in DOMAIN bd \cup {mangled} |-> IF m = mangled THEN bit ELSE bd[m]])
            ELSE BitDictLoop_Mut(bits, k + 1, bit, bd)

\* BitmapResponseBitDict.__init__: the loop over cls.bits, from position k
\* (1-based) with the counter at bit and the dictionary at bd.
RECURSIVE BitDictLoop(_, _, _, _)
BitDictLoop(bits, k, bit, bd) ==
    IF k > Len(bits) THEN bd
    ELSE LET b == bits[k]
             mangled == Mangle(b)
             bd2 == IF b # <<>>
                    THEN [m \in DOMAIN bd \cup {mangled} |->
                              IF m = mangled THEN bit ELSE bd[m]]
                    ELSE bd
         IN BitDictLoop(bits, k + 1, bit + 1, bd2)

\* cls._bit_properties
BitProperties(cls) == BitDictLoop(cls.bits, 1, 0, <<>>)

\* Mutant of StatusLoop: the payload is shifted only past a named position.
RECURSIVE StatusLoop_Mut(_, _, _, _)
StatusLoop_Mut(bits, k, v, l) ==
    IF k > Len(bits) THEN l
    ELSE LET b == bits[k] IN
         IF b = <<>> THEN StatusLoop_Mut(bits, k + 1, v, l)
         ELSE StatusLoop_Mut(bits, k + 1, ShiftR(v, 1),
                             IF BitAnd(v, 1) # 0 THEN Append(l, b) ELSE l)

\* BitmapResponse.status: the loop over self.bits from position k with the
\* shifted payload at v and the list at l.
RECURSIVE StatusLoop(_, _, _, _)
StatusLoop(bits, k, v, l) ==
    IF k > Len(bits) THEN l
    ELSE LET b == bits[k]
             l2 == IF BitAnd(v, 1) # 0 /\ b # <<>> THEN Append(l, b) ELSE l
         IN StatusLoop(bits, k + 1, ShiftR(v, 1), l2)

FramingErrorText == <<"response received with framing error">>

BitmapResponse_status(self) ==
    IF self._value.t = "None" THEN Raise("MissingResponse")
    ELSE IF self._value.error THEN Return(PyList(FramingErrorText))
    ELSE Return(PyList(StatusLoop(self.cls.bits, 1, FrameSlice(self._value, 7, 0), <<>>)))

\* BitmapResponse.error
BitmapResponse_error(self) ==
    IF self._value.t = "None" THEN Return(PyBool(FALSE))
    ELSE Return(PyBool(self._value.error))

\* BitmapResponse.__getattr__
BitmapResponse___getattr__(self, name) ==
    IF name \in DOMAIN BitProperties(self.cls)
    THEN IF self._value.t = "None" THEN Return(PyNone)
         ELSE IF self._value.error THEN Return(PyNone)
         ELSE Return(PyBool(FrameBit(self._value, BitProperties(self.cls)[name])))
    ELSE Raise("AttributeError")

\* The attributes ordinary lookup finds on a BitmapResponse instance;
\* __getattr__ runs only for the other names.
Attr_value == <<"v", "a", "l", "u", "e">>
Attr_status == <<"s", "t", "a", "t", "u", "s">>
Attr_error == <<"e", "r", "r", "o", "r">>
Attr_bits == <<"b", "i", "t", "s">>
OrdinaryAttrs == {Attr_value, Attr_status, Attr_error, Attr_bits}

\* getattr(self, name) on a BitmapResponse instance
GetAttr(self, name) ==
    CASE name = Attr_value -> Value(self)
      [] name = Attr_status -> BitmapResponse_status(self)
      [] name = Attr_error -> BitmapResponse_error(self)
      [] name = Attr_bits -> Return(PyList(self.cls.bits))
      [] OTHER -> BitmapResponse___getattr__(self, name)

\* BitmapResponse.__unicode__: every exception of status is caught
BitmapResponse___unicode__(self) ==
    LET s == BitmapResponse_status(self) IN
    IF s.tag = "return" THEN Return(PyText(s.val)) ELSE Return(PyText(PyStr(s.exc)))

\* unicode(self), resolved through the class of self
Unicode(self) ==
    IF self.cls.base = "BitmapResponse" THEN BitmapResponse___unicode__(self)
    ELSE Response___unicode__(self)

(* Inputs of the response model. *)

\* Bit names: empty (an unnamed position), plain, and names the metaclass
\* mangles ("a-" becomes "a", "a b" becomes "a_b").
BitNames == {<<>>, <<"a">>, <<"c">>, <<"a", "-">>, <<"a", " ", "b">>}

RECURSIVE SeqsUpTo(_, _)
SeqsUpTo(S, n) ==
    IF n = 0 THEN {<<>>}
    ELSE LET shorter == SeqsUpTo(S, n - 1)
         IN shorter \cup {Append(s, x) : s \in {q \in shorter : Len(q) = n - 1}, x \in S}

BitLists == SeqsUpTo(BitNames, MaxBits)

\* Names looked up on a response: the declared names, a mangled form, an
\* ordinary attribute, and a name declared nowhere.
AccessNames == BitNames \cup {<<"a", "_", "b">>, Attr_error, <<"z">>}

ResponseClasses == {ResponseCls, YesNoResponseCls} \cup {BitmapResponseCls(b) : b \in BitLists}

\* Every payload of an 8-bit backward frame.
Payloads == 0..255

\* What a caller may pass to a Response constructor: None, a backward frame
\* with or without the framing-error flag, or something that is neither.
ResponseArgs ==
    {PyNone, PyInt(5)} \cup {BackwardFrame(p, e) : p \in Payloads, e \in BOOLEAN}

\* cls(val)
NewResponse(cls, val) ==
    /\ rop = <<"init">>
    /\ LET o == Response___init__(cls, val) IN
       /\ resp' = IF o.tag = "return" THEN o.val ELSE PyNone
       /\ rout' = o
    /\ rop' = <<"new", cls, val>>
    /\ UNCHANGED <<encVars, regVars>>

\* r.value
ReadValue ==
    /\ rop[1] = "new" /\ resp.t = "Response"
    /\ rop' = <<"value">>
    /\ rout' = Value(resp)
    /\ UNCHANGED <<resp, encVars, regVars>>

\* r.status
ReadStatus ==
    /\ rop[1] = "new" /\ resp.t = "Response" /\ resp.cls.base = "BitmapResponse"
    /\ rop' = <<"status">>
    /\ rout' = BitmapResponse_status(resp)
    /\ UNCHANGED <<resp, encVars, regVars>>

\* getattr(r, name)
ReadAttr(name) ==
    /\ rop[1] = "new" /\ resp.t = "Response" /\ resp.cls.base = "BitmapResponse"
    /\ rop' = <<"getattr", name>>
    /\ rout' = GetAttr(resp, name)
    /\ UNCHANGED <<resp, encVars, regVars>>

\* unicode(r)
ReadUnicode ==
    /\ rop[1] = "new" /\ resp.t = "Response"
    /\ rop' = <<"unicode">>
    /\ rout' = Unicode(resp)
    /\ UNCHANGED <<resp, encVars, regVars>>

RespNext ==
    \/ rop = <<"init">> /\ \E cls \in ResponseClasses, val \in ResponseArgs :
                              NewResponse(cls, val)
    \/ ReadValue
    \/ ReadStatus
    \/ \E name \in AccessNames : ReadAttr(name)
    \/ ReadUnicode

InitResponse ==
    /\ resp = PyNone /\ rop = <<"init">> /\ rout = NoOutcome
    /\ cmd = PyNone /\ cop = <<"init">> /\ cout = NoOutcome
    /\ commands = <<>> /\ nclasses = 0 /\ dop = <<"init">> /\ dout = NoOutcome

SpecResponse == InitResponse /\ [][RespNext]_vars

---------------------------------------------------------------------------
(* The address abstraction (dali.address, consumed through its interface). *)

Broadcast == [t |-> "Broadcast"]
Group(g) == [t |-> "Group", group |-> g]
\* address.Short(n): a short address is 0..63
Short(n) ==
    IF n < 0 \/ n > 63 THEN Raise("ValueError")
    ELSE Return([t |-> "Short", address |-> n])

AddressKinds == {"Short", "Group", "Broadcast"}

\* addr.add_to_frame(f): the address takes bits 15..9 of the frame
add_to_frame(addr, f) ==
    CASE addr.t = "Short" -> FrameSetSlice(FrameSetSlice(f, 15, 15, 0), 14, 9, addr.address)
      [] addr.t = "Group" -> FrameSetSlice(FrameSetSlice(f, 15, 13, 4), 12, 9, addr.group)
      [] addr.t = "Broadcast" -> FrameSetSlice(f, 15, 9, 127)

\* address.from_frame(f): the address bits 15..9 encode, None if none
address_from_frame(f) ==
    IF ~FrameBit(f, 15) THEN [t |-> "Short", address |-> FrameSlice(f, 14, 9)]
    ELSE IF FrameSlice(f, 14, 13) = 0 THEN Group(FrameSlice(f, 12, 9))
    ELSE IF FrameSlice(f, 14, 9) = 63 THEN Broadcast
    ELSE PyNone

---------------------------------------------------------------------------
(* The command model.                                                      *)

\* A command class: name is the class's own name for the classes of
\* command.py and "declared" for one declared later; base is the class of
\* command.py whose methods it inherits; serial numbers the class
\* statements in the order they run; _cmdval is <<>> for None.
CommandClass(name, base, serial, cmdval, hasparam, devicetype) ==
    [name |-> name, base |-> base, serial |-> serial, _cmdval |-> cmdval,
     _hasparam |-> hasparam, _devicetype |-> devicetype]

CommandCls == CommandClass("Command", "Command", 0, <<>>, FALSE, 0)
GeneralCommandCls == CommandClass("GeneralCommand", "GeneralCommand", 1, <<>>, FALSE, 0)
ConfigCommandCls == CommandClass("ConfigCommand", "ConfigCommand", 2, <<>>, FALSE, 0)
SpecialCommandCls == CommandClass("SpecialCommand", "SpecialCommand", 3, <<>>, FALSE, 0)
ShortAddrSpecialCommandCls ==
    CommandClass("ShortAddrSpecialCommand", "ShortAddrSpecialCommand", 4, <<>>, FALSE, 0)
QueryCommandCls == CommandClass("QueryCommand", "QueryCommand", 5, <<>>, FALSE, 0)

GeneralBases == {"GeneralCommand", "ConfigCommand", "QueryCommand"}

\* Command.__init__
Command___init__(cls, f) ==
    IF f.t # "ForwardFrame" THEN Raise("AssertionError")
    ELSE Return([t |-> "Command", cls |-> cls, _data |-> f])

\* Command._check_destination
_check_destination(destination) ==
    LET d1 == IF destination.t = "Device" THEN destination._addressobj ELSE destination
        d2 == IF d1.t = "int" THEN Short(d1.i) ELSE Return(d1)
    IN IF d2.tag = "raise" THEN d2
       ELSE IF d2.val.t \in AddressKinds THEN d2
       ELSE Raise("ValueError")

\* Mutant of GeneralCommand___init__: the upper limit of param is off by one.
GeneralCommand___init___Mut(cls, destination, args) ==
    IF cls._cmdval = <<>> THEN Raise("NotImplementedError")
    ELSE IF cls._hasparam /\ Len(args) # 1 THEN Raise("TypeError")
    ELSE IF cls._hasparam /\ args[1].t # "int" THEN Raise("ValueError")
    ELSE IF cls._hasparam /\ (args[1].i < 0 \/ args[1].i > 16) THEN Raise("ValueError")
    ELSE IF ~cls._hasparam /\ Len(args) # 0 THEN Raise("TypeError")
    ELSE LET param == IF cls._hasparam THEN args[1].i ELSE 0
             dest == _check_destination(destination)
         IN IF dest.tag = "raise" THEN dest
            ELSE LET f == add_to_frame(dest.val,
                              ForwardFrame(16, BitOr(BitOr(256, cls._cmdval[1]), param)))
                 IN IF cls._hasparam
                    THEN Return([t |-> "Command", cls |-> cls, param |-> param,
                                 destination |-> dest.val, _data |-> f])
                    ELSE Return([t |-> "Command", cls |-> cls,
                                 destination |-> dest.val, _data |-> f])

\* GeneralCommand.__init__(self, destination, *args)
GeneralCommand___init__(cls, destination, args) ==
    IF cls._cmdval = <<>> THEN Raise("NotImplementedError")
    ELSE IF cls._hasparam /\ Len(args) # 1 THEN Raise("TypeError")
    ELSE IF cls._hasparam /\ args[1].t # "int" THEN Raise("ValueError")
    ELSE IF cls._hasparam /\ (args[1].i < 0 \/ args[1].i > 15) THEN Raise("ValueError")
    ELSE IF ~cls._hasparam /\ Len(args) # 0 THEN Raise("TypeError")
    ELSE LET param == IF cls._hasparam THEN args[1].i ELSE 0
             dest == _check_destination(destination)
         IN IF dest.tag = "raise" THEN dest
            ELSE LET f == add_to_frame(dest.val,
                              ForwardFrame(16, BitOr(BitOr(256, cls._cmdval[1]), param)))
                 IN IF cls._hasparam
                    THEN Return([t |-> "Command", cls |-> cls, param |-> param,
                                 destination |-> dest.val, _data |-> f])
                    ELSE Return([t |-> "Command", cls |-> cls,
                                 destination |-> dest.val, _data |-> f])

\* SpecialCommand.__init__(self, *args)
SpecialCommand___init__(cls, args) ==
    IF cls._hasparam /\ Len(args) # 1 THEN Raise("TypeError")
    ELSE IF cls._hasparam /\ args[1].t # "int" THEN Raise("ValueError")
    ELSE IF cls._hasparam /\ (args[1].i < 0 \/ args[1].i > 255) THEN Raise("ValueError")
    ELSE IF ~cls._hasparam /\ Len(args) # 0 THEN Raise("TypeError")
    ELSE Return([t |-> "Command", cls |-> cls,
                 param |-> IF cls._hasparam THEN args[1].i ELSE 0])

\* ShortAddrSpecialCommand.__init__(self, address)
ShortAddrSpecialCommand___init__(cls, args) ==
    IF Len(args) # 1 THEN Raise("TypeError")
    ELSE IF args[1].t # "int" THEN Raise("ValueError")
    ELSE IF args[1].i < 0 \/ args[1].i > 63 THEN Raise("ValueError")
    ELSE Return([t |-> "Command", cls |-> cls, address |-> args[1].i])

\* cls(*args), resolved through the class
New(cls, args) ==
    CASE cls.base \in GeneralBases ->
             IF Len(args) = 0 THEN Raise("TypeError")
             ELSE GeneralCommand___init__(cls, Head(args), Tail(args))
      [] cls.base = "SpecialCommand" -> SpecialCommand___init__(cls, args)
      [] cls.base = "ShortAddrSpecialCommand" -> ShortAddrSpecialCommand___init__(cls, args)
      [] cls.base = "Command" ->
             IF Len(args) # 1 THEN Raise("TypeError") ELSE Command___init__(cls, args[1])

\* Command.frame, SpecialCommand.frame, ShortAddrSpecialCommand.frame
Command_frame(self) == self._data
SpecialCommand_frame(self) == ForwardFrameBytes(self.cls._cmdval[1], self.param)
ShortAddrSpecialCommand_frame(self) ==
    ForwardFrameBytes(self.cls._cmdval[1], BitOr(ShiftL(self.address, 1), 1))

\* self.frame, resolved through the class of self
Frame(self) ==
    CASE self.cls.base = "SpecialCommand" -> SpecialCommand_frame(self)
      [] self.cls.base = "ShortAddrSpecialCommand" -> ShortAddrSpecialCommand_frame(self)
      [] OTHER -> Command_frame(self)

\* Mutant of GeneralCommand_from_frame: the opcode byte is passed on as
\* the parameter without masking its high nibble.
GeneralCommand_from_frame_Mut(cls, frame) ==
    IF cls.name = "GeneralCommand" THEN Return(PyNone)
    ELSE IF FrameLen(frame) # 16 THEN Return(PyNone)
    ELSE IF ~FrameBit(frame, 8) THEN Return(PyNone)
    ELSE LET b == FrameSlice(frame, 7, 0) IN
         IF cls._hasparam /\ <<BitAnd(b, 240)>> # cls._cmdval THEN Return(PyNone)
         ELSE IF ~cls._hasparam /\ <<b>> # cls._cmdval THEN Return(PyNone)
         ELSE LET addr == address_from_frame(frame) IN
              IF addr.t = "None" THEN Return(PyNone)
              ELSE IF cls._hasparam
              THEN GeneralCommand___init__(cls, addr, <<PyInt(b)>>)
              ELSE GeneralCommand___init__(cls, addr, <<>>)

\* GeneralCommand.from_frame
GeneralCommand_from_frame(cls, frame) ==
    IF cls.name = "GeneralCommand" THEN Return(PyNone)
    ELSE IF FrameLen(frame) # 16 THEN Return(PyNone)
    ELSE IF ~FrameBit(frame, 8) THEN Return(PyNone)
    ELSE LET b == FrameSlice(frame, 7, 0) IN
         IF cls._hasparam /\ <<BitAnd(b, 240)>> # cls._cmdval THEN Return(PyNone)
         ELSE IF ~cls._hasparam /\ <<b>> # cls._cmdval THEN Return(PyNone)
         ELSE LET addr == address_from_frame(frame) IN
              IF addr.t = "None" THEN Return(PyNone)
              ELSE IF cls._hasparam
              THEN GeneralCommand___init__(cls, addr, <<PyInt(BitAnd(b, 15))>>)
              ELSE GeneralCommand___init__(cls, addr, <<>>)

\* SpecialCommand.from_frame
SpecialCommand_from_frame(cls, frame) ==
    IF cls.name = "SpecialCommand" THEN Return(PyNone)
    ELSE IF FrameLen(frame) # 16 THEN Return(PyNone)
    ELSE IF <<FrameSlice(frame, 15, 8)>> = cls._cmdval
    THEN IF cls._hasparam
         THEN SpecialCommand___init__(cls, <<PyInt(FrameSlice(frame, 7, 0))>>)
         ELSE IF FrameSlice(frame, 7, 0) = 0
         THEN SpecialCommand___init__(cls, <<>>)
         ELSE Return(PyNone)
    ELSE Return(PyNone)

\* ShortAddrSpecialCommand.from_frame
ShortAddrSpecialCommand_from_frame(cls, frame) ==
    IF cls.name = "ShortAddrSpecialCommand" THEN Return(PyNone)
    ELSE IF FrameLen(frame) # 16 THEN Return(PyNone)
    ELSE IF <<FrameSlice(frame, 15, 8)>> = cls._cmdval
    THEN IF FrameBit(frame, 7) = FALSE /\ FrameBit(frame, 0) = TRUE
         THEN ShortAddrSpecialCommand___init__(cls, <<PyInt(FrameSlice(frame, 6, 1))>>)
         ELSE Return(PyNone)
    ELSE Return(PyNone)

\* dc.from_frame(f) for a registered class dc, resolved through the class;
\* a direct subclass of Command inherits Command.from_frame, which returns
\* None for every class but Command.
FromFrameOf(dc, f) ==
    CASE dc.base \in GeneralBases -> GeneralCommand_from_frame(dc, f)
      [] dc.base = "SpecialCommand" -> SpecialCommand_from_frame(dc, f)
      [] dc.base = "ShortAddrSpecialCommand" -> ShortAddrSpecialCommand_from_frame(dc, f)
      [] OTHER -> Return(PyNone)

\* CommandTracker.__init__, run by every class statement under Command:
\* tracker is the _commands attribute as the new class sees it.
CommandTracker___init__(tracker, cls) ==
    IF ~tracker.has THEN [has |-> TRUE, list |-> <<>>]
    ELSE [tracker EXCEPT !.list = Append(tracker.list, cls)]

\* The class statements of command.py, in their order.
ModuleClasses ==
    <<CommandCls, GeneralCommandCls, ConfigCommandCls, SpecialCommandCls,
      ShortAddrSpecialCommandCls, QueryCommandCls>>

RECURSIVE RunClassStatements(_, _, _)
RunClassStatements(tracker, classes, k) ==
    IF k > Len(classes) THEN tracker
    ELSE RunClassStatements(CommandTracker___init__(tracker, classes[k]), classes, k + 1)

\* Command._commands once command.py is imported
ModuleRegistry == RunClassStatements([has |-> FALSE, list |-> <<>>], ModuleClasses, 1).list

\* Mutant of DispatchLoop: the device type of a registered class is not
\* compared with the one asked for.
RECURSIVE DispatchLoop_Mut(_, _, _, _)
DispatchLoop_Mut(registry, k, f, devicetype) ==
    IF k > Len(registry) THEN Command___init__(CommandCls, f)
    ELSE LET r == FromFrameOf(registry[k], f) IN
         IF r.tag = "raise" THEN r
         ELSE IF Truthy(r.val) THEN r
         ELSE DispatchLoop_Mut(registry, k + 1, f, devicetype)

\* Mutant of DispatchLoop: the last class that matches wins.
RECURSIVE DispatchLoop_Last(_, _, _, _)
DispatchLoop_Last(registry, k, f, devicetype) ==
    IF k > Len(registry) THEN Command___init__(CommandCls, f)
    ELSE LET rest == DispatchLoop_Last(registry, k + 1, f, devicetype)
             r == FromFrameOf(registry[k], f)
         IN IF rest.tag = "return" /\ rest.val.cls # CommandCls THEN rest
            ELSE IF registry[k]._devicetype # devicetype THEN rest
            ELSE IF r.tag = "raise" THEN r
            ELSE IF Truthy(r.val) THEN r
            ELSE rest

\* Command.from_frame: the loop over cls._commands from position k, and
\* the generic command after it.
RECURSIVE DispatchLoop(_, _, _, _)
DispatchLoop(registry, k, f, devicetype) ==
    IF k > Len(registry) THEN Command___init__(CommandCls, f)
    ELSE LET dc == registry[k] IN
         IF dc._devicetype # devicetype THEN DispatchLoop(registry, k + 1, f, devicetype)
         ELSE LET r == FromFrameOf(dc, f) IN
              IF r.tag = "raise" THEN r
              ELSE IF Truthy(r.val) THEN r
              ELSE DispatchLoop(registry, k + 1, f, devicetype)

\* Command.from_frame(f, devicetype), called on class cls
Command_from_frame(cls, registry, f, devicetype) ==
    IF cls # CommandCls THEN Return(PyNone)
    ELSE DispatchLoop(registry, 1, f, devicetype)

(* Inputs of the command model. *)

\* Concrete command types, as a module of command declarations states
\* them: a type with a parameter keeps the low nibble of its opcode clear.
EncodeClasses ==
    {CommandClass("declared", "GeneralCommand", 6, <<0>>, FALSE, 0),
     CommandClass("declared", "GeneralCommand", 6, <<16>>, TRUE, 0),
     CommandClass("declared", "ConfigCommand", 6, <<32>>, FALSE, 0),
     CommandClass("declared", "ConfigCommand", 6, <<64>>, TRUE, 0),
     CommandClass("declared", "QueryCommand", 6, <<144>>, FALSE, 0),
     CommandClass("declared", "QueryCommand", 6, <<176>>, TRUE, 1),
     CommandClass("declared", "SpecialCommand", 6, <<161>>, FALSE, 0),
     CommandClass("declared", "SpecialCommand", 6, <<163>>, TRUE, 0),
     CommandClass("declared", "ShortAddrSpecialCommand", 6, <<183>>, FALSE, 0),
     GeneralCommandCls}

NotAnInt == PyStr(<<"x">>)

\* Destinations: every address, integers in and out of the short-address
\* range, a device that carries an address, and something that is none.
Destinations ==
    {[t |-> "Short", address |-> a] : a \in 0..63} \cup {Group(g) : g \in 0..15}
    \cup {Broadcast, PyInt(0), PyInt(5), PyInt(63), PyInt(64), NotAnInt,
          [t |-> "Device", _addressobj |-> [t |-> "Short", address |-> 5]]}

\* Argument lists: none, one value, or one value and spare ones.
ArgLists(vals) ==
    {<<>>} \cup {<<v>> \o spare : v \in vals, spare \in SeqsUpTo({PyInt(0)}, MaxArgs - 1)}

ParamValues(max) == {PyInt(i) : i \in (0 - 2)..(max + 2)} \cup {NotAnInt}

\* The argument lists a class's constructor is tried with.
ConstructorArgs(cls) ==
    CASE cls.base \in GeneralBases ->
             {<<>>} \cup {<<d>> \o a : d \in Destinations, a \in ArgLists(ParamValues(15))}
      [] cls.base = "SpecialCommand" -> ArgLists(ParamValues(255))
      [] cls.base = "ShortAddrSpecialCommand" -> ArgLists(ParamValues(63))

\* cls(*args)
Construct(cls, args) ==
    /\ cop = <<"init">>
    /\ LET o == New(cls, args) IN
       /\ cmd' = IF o.tag = "return" THEN o.val ELSE PyNone
       /\ cout' = o
    /\ cop' = <<"new", cls, args>>
    /\ UNCHANGED <<respVars, regVars>>

\* type(c).from_frame(c.frame)
DecodeOwnFrame ==
    /\ cop[1] = "new" /\ cmd.t = "Command"
    /\ cop' = <<"from_frame", cop[2], cop[3]>>
    /\ cout' = FromFrameOf(cmd.cls, Frame(cmd))
    /\ UNCHANGED <<cmd, respVars, regVars>>

EncodeNext ==
    \/ cop = <<"init">> /\ \E cls \in EncodeClasses : \E args \in ConstructorArgs(cls) :
                              Construct(cls, args)
    \/ DecodeOwnFrame

InitEncode ==
    /\ resp = PyNone /\ rop = <<"init">> /\ rout = NoOutcome
    /\ cmd = PyNone /\ cop = <<"init">> /\ cout = NoOutcome
    /\ commands = <<>> /\ nclasses = 0 /\ dop = <<"init">> /\ dout = NoOutcome

SpecEncode == InitEncode /\ [][EncodeNext]_vars

\* The shapes of the command types declared after command.py: types whose
\* bit patterns overlap (a type with a parameter and one without on the
\* same opcode, a short-address type and a parameter type on the same
\* opcode), for either device type, and a type that derives from Command
\* directly.
DeclaredShapes ==
    {[base |-> "GeneralCommand", _cmdval |-> <<16>>, _hasparam |-> TRUE],
     [base |-> "ConfigCommand", _cmdval |-> <<16>>, _hasparam |-> FALSE],
     [base |-> "QueryCommand", _cmdval |-> <<19>>, _hasparam |-> FALSE],
     [base |-> "SpecialCommand", _cmdval |-> <<163>>, _hasparam |-> TRUE],
     [base |-> "SpecialCommand", _cmdval |-> <<163>>, _hasparam |-> FALSE],
     [base |-> "ShortAddrSpecialCommand", _cmdval |-> <<163>>, _hasparam |-> FALSE],
     [base |-> "Command", _cmdval |-> <<>>, _hasparam |-> FALSE]}

DeviceTypes == {0, 1}

\* Frames handed to the dispatcher: 16-bit frames over a few address bytes
\* (short address 5 with and without the command bit, group 0, broadcast,
\* a special-command byte) and opcode bytes, and a 24-bit frame.
DispatchFrames ==
    {ForwardFrameBytes(hi, lo) : hi \in {10, 11, 129, 255, 163},
                                 lo \in {0, 1, 11, 16, 19, 31, 139, 255}}
    \cup {ForwardFrame(24, 725760)}

\* A class statement under Command, after those of command.py
DeclareClass(shape, devicetype) ==
    /\ nclasses < MaxDeclared
    /\ LET cls == CommandClass("declared", shape.base, Len(ModuleRegistry) + nclasses + 1,
                               shape._cmdval, shape._hasparam, devicetype)
       IN commands' = CommandTracker___init__([has |-> TRUE, list |-> commands], cls).list
    /\ nclasses' = nclasses + 1
    /\ dop' = <<"init">>
    /\ dout' = NoOutcome
    /\ UNCHANGED <<respVars, encVars>>

\* Command.from_frame(f, devicetype)
FromFrame(f, devicetype) ==
    /\ dop = <<"init">>
    /\ dop' = <<"from_frame", f, devicetype>>
    /\ dout' = Command_from_frame(CommandCls, commands, f, devicetype)
    /\ UNCHANGED <<commands, nclasses, respVars, encVars>>

RegistryNext ==
    \/ \E shape \in DeclaredShapes, d \in DeviceTypes : DeclareClass(shape, d)
    \/ dop = <<"init">> /\ \E f \in DispatchFrames, d \in DeviceTypes : FromFrame(f, d)

InitRegistry ==
    /\ resp = PyNone /\ rop = <<"init">> /\ rout = NoOutcome
    /\ cmd = PyNone /\ cop = <<"init">> /\ cout = NoOutcome
    /\ commands = ModuleRegistry /\ nclasses = 0 /\ dop = <<"init">> /\ dout = NoOutcome

SpecRegistry == InitRegistry /\ [][RegistryNext]_vars

---------------------------------------------------------------------------
(* Properties of the response model, checked under SpecResponse.           *)

ReadOf(op) == rop[1] = op /\ resp.t = "Response"
NoFrame == resp._value.t = "None"
FrameWithError == resp._value.t = "BackwardFrame" /\ resp._value.error
CleanFrame == resp._value.t = "BackwardFrame" /\ ~resp._value.error

\* C5, as stated: reading value on a base Response built with no backward
\* frame raises MissingResponse.
C5_Original ==
    (ReadOf("value") /\ resp.cls = ResponseCls /\ NoFrame)
        => rout = Raise("MissingResponse")

\* C5, amended: reading value on a base Response built with no backward
\* frame returns None; with no frame, value raises MissingResponse exactly
\* on the types that expect a response (BitmapResponse and its subtypes).
C5_Amended ==
    (ReadOf("value") /\ NoFrame) =>
        /\ (resp.cls = ResponseCls => rout = Return(PyNone))
        /\ (rout = Raise("MissingResponse") <=> resp.cls.base = "BitmapResponse")

C5_Witness ==
    /\ ReadOf("value") /\ resp.cls = ResponseCls /\ NoFrame
    /\ rout = Return(PyNone)

C7_YesNoTotal ==
    (ReadOf("value") /\ resp.cls = YesNoResponseCls) =>
        rout = Return(PyBool(resp._value.t = "BackwardFrame"))

C7_Witness ==
    /\ ReadOf("value") /\ resp.cls = YesNoResponseCls /\ FrameWithError
    /\ rout = Return(PyBool(TRUE))

\* The elements of a finite set of integers, ascending.
RECURSIVE Ascending(_)
Ascending(S) ==
    IF S = {} THEN <<>>
    ELSE LET m == CHOOSE x \in S : \A y \in S : x <= y
         IN <<m>> \o Ascending(S \ {m})

\* Bit i (0-based) of an 8-bit payload.
PayloadBit(payload, i) == (payload \div Pow2(i)) % 2 = 1

\* The names a payload selects from a bit list: the non-empty names at the
\* positions whose bit is set, by ascending position.
NamesSet(bits, payload) ==
    LET at == Ascending({i \in 1..Len(bits) : bits[i] # <<>> /\ PayloadBit(payload, i - 1)})
    IN [k \in 1..Len(at) |-> bits[at[k]]]

\* C8: status raises MissingResponse with no frame, returns the collision
\* sentinel for a frame with the framing-error flag, and otherwise exactly
\* the non-empty names whose position's bit is set in the payload, by
\* ascending position, an empty name still taking up its position.
C8_Status ==
    ReadOf("status") =>
        /\ NoFrame => rout = Raise("MissingResponse")
        /\ FrameWithError => rout = Return(PyList(FramingErrorText))
        /\ CleanFrame => rout = Return(PyList(NamesSet(resp.cls.bits, resp._value.data)))

C8_Witness ==
    /\ ReadOf("status") /\ CleanFrame
    /\ resp.cls.bits = << <<"a">>, <<>>, <<"c">> >>
    /\ resp._value.data = 5
    /\ rout = Return(PyList(<< <<"a">>, <<"c">> >>))

\* The positions (1-based) of the bit list at which a name is declared.
DeclaredAt(name) == {i \in 1..Len(resp.cls.bits) : resp.cls.bits[i] = name}

\* C9, as stated: looking up a declared non-empty bit name gives false or
\* nothing when the frame is absent or has a framing error and otherwise
\* the payload bit at the name's position; looking up a name that is not
\* declared is an error.  (Read with the ordinary attributes of a response,
\* such as error, left aside.)
C9_Original ==
    (ReadOf("getattr") /\ rop[2] \notin OrdinaryAttrs) =>
        LET name == rop[2] IN
        IF name # <<>> /\ DeclaredAt(name) # {}
        THEN \A i \in DeclaredAt(name) :
                 /\ (NoFrame \/ FrameWithError) =>
                        rout \in {Return(PyNone), Return(PyBool(FALSE))}
                 /\ CleanFrame => rout = Return(PyBool(PayloadBit(resp._value.data, i - 1)))
        ELSE rout = Raise("AttributeError")

\* The positions whose non-empty name, with its spaces turned to
\* underscores and its hyphens dropped, reads as the name looked up.
ReadsAs(b) ==
    SelectSeq([k \in 1..Len(b) |-> IF b[k] = " " THEN "_" ELSE b[k]], LAMBDA c : c # "-")

MangledAt(name) ==
    {i \in 1..Len(resp.cls.bits) : resp.cls.bits[i] # <<>> /\ ReadsAs(resp.cls.bits[i]) = name}

\* C9, amended: a bit is looked up under its mangled name (spaces turned
\* to underscores, hyphens dropped).  For a name that is no ordinary
\* attribute of the response: if it is the mangled form of a declared
\* non-empty name, the lookup gives None when the frame is absent or has a
\* framing error, and otherwise the payload bit at the last position whose
\* name mangles to it; if it is the mangled form of none, the lookup is
\* an AttributeError in every frame state.
C9_Amended ==
    (ReadOf("getattr") /\ rop[2] \notin OrdinaryAttrs) =>
        LET at == MangledAt(rop[2]) IN
        IF at = {} THEN rout = Raise("AttributeError")
        ELSE LET last == CHOOSE i \in at : \A j \in at : j <= i IN
             /\ (NoFrame \/ FrameWithError) => rout = Return(PyNone)
             /\ CleanFrame => rout = Return(PyBool(PayloadBit(resp._value.data, last - 1)))

C9_Witness ==
    /\ ReadOf("getattr") /\ rop[2] = <<"a", "_", "b">> /\ CleanFrame
    /\ resp.cls.bits = << <<>>, <<"a", " ", "b">> >>
    /\ resp._value.data = 2
    /\ rout = Return(PyBool(TRUE))

\* C10: rendering a base Response as text never lets a response error
\* through: MissingResponse and ResponseError are both caught.
C10_NeverPropagates ==
    (ReadOf("unicode") /\ resp.cls = ResponseCls) => rout.tag = "return"

---------------------------------------------------------------------------
(* Properties of command construction and decoding, checked under          *)
(* SpecEncode.                                                             *)

\* The address a destination argument stands for.
AddressOf(d) ==
    CASE d.t = "int" -> [t |-> "Short", address |-> d.i]
      [] d.t = "Device" -> d._addressobj
      [] OTHER -> d

\* C1: for a command built from valid parameters, the from_frame of its
\* type, given the command's frame, returns an instance of the same type
\* (hence the same opcode) with the same parameter, address and destination.
C1_RoundTrip ==
    (cop[1] = "from_frame") =>
        LET cls == cop[2]
            args == cop[3]
        IN /\ cout.tag = "return"
           /\ cout.val.t = "Command"
           /\ cout.val.cls = cls
           /\ cls.base \in GeneralBases =>
                  /\ cout.val.destination = AddressOf(args[1])
                  /\ cls._hasparam => cout.val.param = args[2].i
           /\ cls.base = "SpecialCommand" =>
                  cout.val.param = IF cls._hasparam THEN args[1].i ELSE 0
           /\ cls.base = "ShortAddrSpecialCommand" => cout.val.address = args[1].i

\* Opcode 0x10 with a parameter, short address 5, parameter 3: the frame's
\* low byte is 0x13 with bit 8 set, and decoding recovers 5 and 3.
C1_Witness ==
    /\ cop[1] = "from_frame"
    /\ cop[2].base = "GeneralCommand" /\ cop[2]._cmdval = <<16>> /\ cop[2]._hasparam
    /\ cop[3] = <<PyInt(5), PyInt(3)>>
    /\ cmd._data.data % 256 = 19 /\ (cmd._data.data \div 256) % 2 = 1
    /\ cout.tag = "return"
    /\ cout.val.param = 3 /\ cout.val.destination = [t |-> "Short", address |-> 5]

\* The largest value of a type's parameter: 15 for the 4-bit parameter of a
\* GeneralCommand, 255 for the 8-bit one of a SpecialCommand, 63 for a
\* short address.
ParamLimit(cls) ==
    CASE cls.base \in GeneralBases -> 15
      [] cls.base = "SpecialCommand" -> 255
      [] cls.base = "ShortAddrSpecialCommand" -> 63

TakesParam(cls) ==
    cls._cmdval # <<>> /\ (cls._hasparam \/ cls.base = "ShortAddrSpecialCommand")

\* A destination that stands for an address.
ValidDestination(d) ==
    \/ d.t \in {"Short", "Group", "Broadcast", "Device"}
    \/ d.t = "int" /\ d.i \in 0..63

\* C2: a constructor given a parameter past the valid range (16, 256, 64)
\* or a negative one raises the invalid-argument error and builds no
\* command; given 0, the largest value (15, 255, 63) or one between, it
\* succeeds.
C2_Boundary ==
    (cop[1] = "new" /\ TakesParam(cop[2])) =>
        LET cls == cop[2]
            general == cls.base \in GeneralBases
            args == IF general /\ Len(cop[3]) > 0 THEN Tail(cop[3]) ELSE cop[3]
        IN (Len(args) = 1 /\ args[1].t = "int" /\ (general => Len(cop[3]) = 2)) =>
               IF args[1].i < 0 \/ args[1].i > ParamLimit(cls)
               THEN cout = Raise("ValueError") /\ cmd = PyNone
               ELSE (general => ValidDestination(cop[3][1])) =>
                        /\ cout.tag = "return"
                        /\ cmd = cout.val /\ cmd.t = "Command" /\ cmd.cls = cls

C2_Witness ==
    /\ cop[1] = "new"
    /\ cop[2].base = "GeneralCommand" /\ cop[2]._hasparam
    /\ cop[3] = <<PyInt(5), PyInt(16)>>
    /\ cout = Raise("ValueError") /\ cmd = PyNone

---------------------------------------------------------------------------
(* Properties of the registry and the dispatcher, checked under            *)
(* SpecRegistry.                                                           *)

\* A registered class accepts a frame when its from_frame returns a command.
Accepts(dc, f) ==
    LET r == FromFrameOf(dc, f) IN r.tag = "return" /\ r.val.t = "Command"

\* The registry positions of the classes of a device type that accept a frame.
Matching(f, d) ==
    {i \in 1..Len(commands) : commands[i]._devicetype = d /\ Accepts(commands[i], f)}

\* C3: the registry holds the command classes in the order of their class
\* statements, and for a frame that classes of the requested device type
\* accept, Command.from_frame returns what the earliest registered of them
\* returns, never the result of a later one.
C3_Priority ==
    /\ \A i \in 1..Len(commands) : commands[i].serial = i
    /\ (dop[1] = "from_frame") =>
           LET m == Matching(dop[2], dop[3]) IN
           m # {} =>
               LET first == CHOOSE i \in m : \A j \in m : i <= j
               IN /\ dout = FromFrameOf(commands[first], dop[2])
                  /\ dout.val.cls = commands[first]

C3_Witness ==
    /\ dop[1] = "from_frame"
    /\ \E i, j \in Matching(dop[2], dop[3]) :
           /\ i < j
           /\ \A k \in Matching(dop[2], dop[3]) : i <= k
           /\ commands[i].base # commands[j].base
           /\ dout.tag = "return" /\ dout.val.cls = commands[i]

=============================================================================
